---- MODULE Spec2Model ----
(***************************************************************************)
(* A model of scheme/convert.py (conversion between AMR triple graphs and  *)
(* UCCA passages).                                                         *)
(*                                                                         *)
(* Specifications:                                                         *)
(*   Spec            _build_layer1 on any list of triples of the universe  *)
(*   SpecPassage     _build_passage, lines 59-61: _build_layer1, then      *)
(*                   align_nodes and _build_layer0, then _update_implicit  *)
(*   SpecExport      _to_triples on any hierarchical graph                 *)
(*   SpecExportLive  _to_triples on graphs of variable nodes, the loop     *)
(*                   always taking its next iteration                      *)
(*   SpecFormat      the line loop of from_format, with the identifiers    *)
(*                   that _build_passage gives to what it yields           *)
(*                                                                         *)
(* Strings that the code takes apart (relation names, labels, tokens,      *)
(* alignments) are sequences of one-character strings.                     *)
(***************************************************************************)
EXTENDS Integers, Sequences, FiniteSets, TLC

\* ------------------------------------------------------------- bounds
\* Number of non-:top triples of a graph given to _build_layer1 (Spec).
MaxTriples == 3
\* Number of non-:top triples of a graph given to _build_passage (SpecPassage).
MaxPassageTriples == 3
\* Number of tokens of the sentence (SpecPassage).
MaxTokens == 2

\* ------------------------------------------------------------- constants
COMMENT_PREFIX == "#"
DEP_PREFIX == ":"
TOP_DEP == <<":", "t", "o", "p">>
ALIGNMENT_PREFIX == <<"e", ".">>
ALIGNMENT_SEP == ","
WIKI == <<"w", "i", "k", "i">>
LayerNames == {"wiki", "numbers"}
LAYERS == [l \in LayerNames |-> IF l = "wiki" THEN {WIKI} ELSE {}]
\* amrutil.VARIABLE_LABEL, layer1.EdgeTags.Terminal / Punctuation,
\* layer1.NodeTags.Punctuation
VARIABLE_LABEL == <<"v">>
INSTANCE_OF == <<"i", "n", "s", "t", "a", "n", "c", "e", "-", "o", "f">>
TagTerminal == <<"T">>
TagPunctuation == <<"U">>
NodePunctuation == <<"P", "N", "C", "T">>
TERMINAL_TAGS == {TagTerminal, TagPunctuation}

None == <<"None">>
NoNode == <<0, 0>>
TopNode == <<1, 1>>
\* l0.all[i]: the terminal of token i (counted from 0).
Terminal(i) == <<0, i + 1>>

\* ------------------------------------------------------------- strings
Range(s) == {s[i] : i \in DOMAIN s}

\* str.lstrip(chars): drop the leading characters that are in chars.
RECURSIVE LStrip(_, _)
LStrip(s, chars) ==
    IF s # <<>> /\ Head(s) \in chars THEN LStrip(Tail(s), chars) ELSE s

\* str.rstrip(chars)
RECURSIVE RStrip(_, _)
RStrip(s, chars) ==
    IF s # <<>> /\ s[Len(s)] \in chars THEN RStrip(SubSeq(s, 1, Len(s) - 1), chars)
    ELSE s

\* str.strip(chars)
StripChars(s, chars) == RStrip(LStrip(s, chars), chars)

\* s in t, for strings: s is a substring of t.
IsIn(s, t) ==
    \E i \in 0..(Len(t) - Len(s)) : SubSeq(t, i + 1, i + Len(s)) = s

\* str.split(sep) for a one-character separator.
RECURSIVE Split(_, _)
Split(s, sep) ==
    IF \E i \in DOMAIN s : s[i] = sep
    THEN LET i == CHOOSE j \in DOMAIN s : s[j] = sep /\ \A k \in 1..(j - 1) : s[k] # sep
         IN <<SubSeq(s, 1, i - 1)>> \o Split(SubSeq(s, i + 1, Len(s)), sep)
    ELSE <<s>>

DigitVal(c) == CASE c = "0" -> 0 [] c = "1" -> 1 [] c = "2" -> 2 [] c = "3" -> 3
                 [] c = "4" -> 4 [] c = "5" -> 5 [] c = "6" -> 6 [] c = "7" -> 7
                 [] c = "8" -> 8 [] c = "9" -> 9

\* int(s) for a string of digits.
RECURSIVE IntOf(_)
IntOf(s) ==
    IF s = <<>> THEN 0
    ELSE IntOf(SubSeq(s, 1, Len(s) - 1)) * 10 + DigitVal(s[Len(s)])

DigitChar(d) == CASE d = 0 -> "0" [] d = 1 -> "1" [] d = 2 -> "2" [] d = 3 -> "3"
                  [] d = 4 -> "4" [] d = 5 -> "5" [] d = 6 -> "6" [] d = 7 -> "7"
                  [] d = 8 -> "8" [] d = 9 -> "9"

\* str(n) for n >= 0.
RECURSIVE StrOfInt(_)
StrOfInt(n) ==
    IF n < 10 THEN <<DigitChar(n)>> ELSE StrOfInt(n \div 10) \o <<DigitChar(n % 10)>>

\* \w of the regular expressions: the characters in use that are not
\* punctuation.
IsWord(c) == c \notin {"(", ")", "\"", ",", ".", ":", " ", "-"}

\* AmrConverter.strip: re.sub("\w+\((.*)\)", "\\1", label). The leftmost run of
\* word characters that ends at a "(" with a ")" somewhere after it, up to the
\* last ")" of the label, is replaced by what the parentheses enclose.
strip(lbl) ==
    LET opens == {e \in DOMAIN lbl : /\ lbl[e] = "("
                                     /\ e > 1 /\ IsWord(lbl[e - 1])
                                     /\ \E r \in (e + 1)..Len(lbl) : lbl[r] = ")"}
    IN IF opens = {} THEN lbl
       ELSE LET e == CHOOSE x \in opens : \A y \in opens : x <= y
                s == CHOOSE x \in 1..(e - 1) :
                        /\ \A k \in x..(e - 1) : IsWord(lbl[k])
                        /\ (x = 1 \/ ~IsWord(lbl[x - 1]))
                r == CHOOSE x \in (e + 1)..Len(lbl) :
                        lbl[x] = ")" /\ \A k \in (x + 1)..Len(lbl) : lbl[k] # ")"
            IN SubSeq(lbl, 1, s - 1) \o SubSeq(lbl, e + 1, r - 1)
               \o SubSeq(lbl, r + 1, Len(lbl))

\* ------------------------------------------------------------- universe
\* AMR variables (amr_lib.Var) and a concept (anything that is not a Var).
Vars == {"a", "b", "c"}
Consts == {"dog"}
\* The head of the :top triple.
TOP == "TOP"

\* str(x) of a variable or concept: its name.
Str(x) == CASE x = "a" -> <<"a">> [] x = "b" -> <<"b">> [] x = "c" -> <<"c">>
            [] x = "dog" -> <<"d", "o", "g">> [] x = TOP -> <<"T", "O", "P">>
\* repr(x) of a concept: the name in a type wrapper.
Repr(x) == <<"C", "o", "n", "c", "e", "p", "t", "(">> \o Str(x) \o <<")">>

RelOp == <<":", "o", "p">>
RelWiki == <<":", "w", "i", "k", "i">>
RelInstance == <<":">> \o INSTANCE_OF
BodyTriples == (Vars \cup Consts) \X {RelOp, RelWiki} \X (Vars \cup Consts)
PassageTriples ==
    ({"a", "b"} \X {RelOp} \X (Vars \cup Consts)) \cup {<<"a", RelInstance, "dog">>}
TopA == <<TOP, TOP_DEP, "a">>
TopB == <<TOP, TOP_DEP, "b">>

\* The order in which amr.triples() lists the triples of the universe.
RankOf(x) == CASE x = TOP -> 0 [] x = "a" -> 1 [] x = "b" -> 2 [] x = "c" -> 3
               [] x = "dog" -> 4
TripleRank(t) == RankOf(t[1]) * 100 + RankOf(t[3]) * 10 + Len(t[2])

RECURSIVE SortTriples(_)
SortTriples(S) ==
    IF S = {} THEN <<>>
    ELSE LET m == CHOOSE x \in S : \A y \in S : TripleRank(x) <= TripleRank(y)
         IN <<m>> \o SortTriples(S \ {m})

\* Sets of at most n triples of U.
RECURSIVE UpTo(_, _)
UpTo(n, U) ==
    IF n = 0 THEN {{}}
    ELSE LET P == UpTo(n - 1, U) IN P \cup {s \cup {t} : s \in P, t \in U}

\* The sentences: lists of at most MaxTokens tokens.
Words == {<<"d", "o", "g">>, <<",">>}
RECURSIVE TokenLists(_)
TokenLists(n) ==
    IF n = 0 THEN {<<>>}
    ELSE LET P == TokenLists(n - 1) IN P \cup {Append(s, w) : s \in P, w \in Words}

\* Every token taken for punctuation.
AllPunct(token) == TRUE
\* layer0.is_punct(terminal): the tokenizer tags a token of punctuation
\* characters as punctuation.
is_punct(token) == \A i \in DOMAIN token : ~IsWord(token[i])

VARIABLES
    \* ---- import: inputs
    triples,        \* amr.triples(): the list of (head, rel, dep)
    remove_cycles,  \* self.remove_cycles
    layers,         \* self.layers
    tokens,         \* amr.tokens()
    amr_alignments, \* (amr.alignments(), amr.role_alignments())
    \* ---- import: state
    pc,             \* position in _build_passage
    err,            \* which assertion failed, if any
    pending,        \* _build_layer1: the breadth-first queue of triples
    visited,        \* _build_layer1: the processed triples
    variables,      \* _build_layer1: AMR variable -> layer 1 node
    nodes,          \* self.nodes in insertion order: <<triple, node>>
    l1all,          \* l1.all: the layer 1 nodes, in creation order
    edges,          \* the edges, in creation order
    label,          \* node.attrib[LABEL_ATTRIB]
    last,           \* what the last iteration of the walk did (history)
    preterminals,   \* what align_nodes returned, in insertion order
    implicit,       \* the nodes with attrib["implicit"]
    ipending        \* _update_implicit: the work queue

impVars == <<triples, remove_cycles, layers, tokens, pc, err, pending, visited,
             variables, nodes, l1all, edges, label, last, preterminals, implicit,
             ipending, amr_alignments>>

VARIABLES
    xpending,       \* _to_triples: the queue of edges
    xvisited,       \* _to_triples: the visited edges
    labels,         \* _to_triples: node.ID -> the label given to it
    idgen,          \* _IdGenerator._id
    emitted         \* the triples yielded so far, with the edge and nodes of each

expVars == <<xpending, xvisited, labels, idgen, emitted>>

VARIABLES
    input,          \* the lines not yet read
    passage_id,     \* self.passage_id
    return_amr,     \* self.return_amr
    flines,         \* self.lines
    amr_id,         \* self.amr_id
    ftokens,        \* self.tokens
    out             \* what the generator has yielded

fmtVars == <<input, passage_id, return_amr, flines, amr_id, ftokens, out>>

vars == <<impVars, expVars, fmtVars>>

\* ------------------------------------------------------------- graph
\* An edge object; id is its identity (the order of creation).
Edge(id, parent, tag, child, remote) ==
    [id |-> id, parent |-> parent, tag |-> tag, child |-> child, remote |-> remote]

\* l1.add_fnode(parent, tag) and parent.add(tag, child): a primary edge.
PrimaryEdge(es, parent, tag, child) == Edge(Len(es) + 1, parent, tag, child, FALSE)
\* l1.add_remote(parent, tag, child): an edge with the remote attribute.
RemoteEdge(es, parent, tag, child) == Edge(Len(es) + 1, parent, tag, child, TRUE)

\* node.children, node.parents: over all edges, remote ones included.
OutgoingPrimary(es, n) == SelectSeq(es, LAMBDA e : e.parent = n /\ ~e.remote)
Outgoing(es, n) == SelectSeq(es, LAMBDA e : e.parent = n)
Incoming(es, n) == SelectSeq(es, LAMBDA e : e.child = n)
Children(es, n) == [i \in DOMAIN Outgoing(es, n) |-> Outgoing(es, n)[i].child]
Parents(es, n) == [i \in DOMAIN Incoming(es, n) |-> Incoming(es, n)[i].parent]

\* l1.heads (ucca.core.Layer.heads): the nodes of the layer without an incoming
\* edge; that is the top node, unless a kept remote edge points at it.
Heads(es, all) == {n \in Range(all) : Incoming(es, n) = <<>>}

\* A graph that lists no triple for a head.
NoTriples(x) == <<>>
\* amr.triples(head=x) / amr.triples(rel=r): the list filtered, order kept.
TriplesHead(x) == SelectSeq(triples, LAMBDA t : t[1] = x)
TriplesRel(r) == SelectSeq(triples, LAMBDA t : t[2] = r)

\* ------------------------------------------------------------- _build_layer1
\* _reachable(x, y), lines 67-78: breadth-first search over the triples.
RECURSIVE ReachLoop(_, _, _)
ReachLoop(q, v, y) ==
    IF q = <<>> THEN FALSE
    ELSE LET x == Head(q) IN
         IF x \in v THEN ReachLoop(Tail(q), v, y)
         ELSE IF x = y THEN TRUE
         ELSE ReachLoop(Tail(q) \o [i \in DOMAIN TriplesHead(x) |-> TriplesHead(x)[i][3]],
                        v \cup {x}, y)

\* A search that finds no path.
NoPath(x, y) == FALSE
_reachable(x, y) == ReachLoop(<<x>>, {}, y)

\* Line 96, for some layer: the relation belongs to a layer that is not enabled.
LayerFiltered(rel) ==
    \E layer \in LayerNames : layer \notin layers /\ rel \in LAYERS[layer]

\* Lines 95-97: the continue statement stands in the for loop over LAYERS, so
\* it continues that loop: the iteration of the while loop is never abandoned.
SkipsTriple(rel) == FALSE

\* Line 81: the assertion on the number of :top triples.
TopAtLeastOne(top) == Len(top) >= 1
TopAssertion(top) == Len(top) = 1

\* A lookup that falls back on the top node.
ParentOrTop(head) == IF head \in DOMAIN variables THEN variables[head] ELSE TopNode
\* Line 98-99: variables.get(head), None for a head that is not mapped.
ParentOf(head) == IF head \in DOMAIN variables THEN variables[head] ELSE NoNode

\* Line 100-101: variables.get(dep).
AlwaysNew(dep) == NoNode
NodeOf(dep) == IF dep \in DOMAIN variables THEN variables[dep] ELSE NoNode

\* Line 110: whether a reentrant triple gets its remote edge.
AlwaysRemote(head, dep) == TRUE
AddsRemote(head, dep) == ~remove_cycles \/ ~_reachable(dep, head)

\* Line 111, l1.add_remote: the edge of a reentrant triple.
ReentrantPrimary(es, parent, tag, child) == PrimaryEdge(es, parent, tag, child)
ReentrantEdge(es, parent, tag, child) == RemoteEdge(es, parent, tag, child)

History(kind, triple, node) == [kind |-> kind, triple |-> triple, node |-> node]

\* Lines 80-87.
BuildStart ==
    /\ pc = "start"
    /\ LET top == TriplesRel(TOP_DEP) IN
       IF ~TopAssertion(top)
       THEN /\ pc' = "failed"
            /\ err' = "top"
            /\ UNCHANGED <<pending, variables, label>>
       ELSE LET root == top[1][3] IN
            /\ pc' = "walk"
            /\ err' = err
            /\ pending' = TriplesHead(root)
            /\ label' = (TopNode :> VARIABLE_LABEL) @@ label
            /\ variables' = (root :> TopNode)
    /\ UNCHANGED <<triples, remove_cycles, layers, tokens, visited, nodes, l1all, edges,
                   last, preterminals, implicit, ipending, amr_alignments>>
    /\ UNCHANGED <<expVars, fmtVars>>

\* Lines 88-112: one iteration of the while loop.
WalkStep ==
    /\ pc = "walk"
    /\ pending # <<>>
    /\ LET triple == Head(pending)
           head == triple[1]
           rel == LStrip(triple[2], {DEP_PREFIX})
           dep == triple[3]
           parent == ParentOf(head)
           node == NodeOf(dep)
           new == <<1, Len(l1all) + 1>>
       IN
       IF triple \in visited
       THEN /\ pending' = Tail(pending)
            /\ last' = History("seen", triple, NoNode)
            /\ UNCHANGED <<pc, err, visited, variables, nodes, l1all, edges, label>>
       ELSE IF SkipsTriple(rel)
       THEN /\ pending' = Tail(pending)
            /\ visited' = visited \cup {triple}
            /\ last' = History("filtered", triple, NoNode)
            /\ UNCHANGED <<pc, err, variables, nodes, l1all, edges, label>>
       ELSE IF parent = NoNode
       THEN /\ pc' = "failed"
            /\ err' = "head"
            /\ pending' = Tail(pending)
            /\ visited' = visited \cup {triple}
            /\ last' = History("assert", triple, NoNode)
            /\ UNCHANGED <<variables, nodes, l1all, edges, label>>
       ELSE IF node = NoNode
       THEN /\ pending' = Tail(pending) \o TriplesHead(dep)
            /\ visited' = visited \cup {triple}
            /\ l1all' = Append(l1all, new)
            /\ edges' = Append(edges, PrimaryEdge(edges, parent, rel, new))
            /\ variables' = IF dep \in Vars THEN (dep :> new) @@ variables
                            ELSE variables
            /\ label' = (new :> IF dep \in Vars THEN VARIABLE_LABEL ELSE Repr(dep))
                        @@ label
            /\ nodes' = Append(nodes, <<triple, new>>)
            /\ last' = History("created", triple, new)
            /\ UNCHANGED <<pc, err>>
       ELSE /\ pending' = Tail(pending)
            /\ visited' = visited \cup {triple}
            /\ IF AddsRemote(head, dep)
               THEN /\ edges' = Append(edges, ReentrantEdge(edges, parent, rel, node))
                    /\ last' = History("remote", triple, node)
               ELSE /\ edges' = edges
                    /\ last' = History("dropped", triple, node)
            /\ nodes' = Append(nodes, <<triple, node>>)
            /\ UNCHANGED <<pc, err, variables, l1all, label>>
    /\ UNCHANGED <<triples, remove_cycles, layers, tokens, preterminals, implicit,
                   ipending, amr_alignments>>
    /\ UNCHANGED <<expVars, fmtVars>>

\* Line 88: the queue is empty and _build_layer1 returns.
WalkDone ==
    /\ pc = "walk"
    /\ pending = <<>>
    /\ pc' = "built"
    /\ UNCHANGED <<triples, remove_cycles, layers, tokens, err, pending, visited,
                   variables, nodes, l1all, edges, label, last, preterminals, implicit,
                   ipending, amr_alignments>>
    /\ UNCHANGED <<expVars, fmtVars>>

\* ------------------------------------------------------------- align_nodes
\* Line 138: the token indices of an alignment such as e.0,1.
ParseAlign(align) ==
    IF align = None THEN <<>>
    ELSE LET parts == Split(LStrip(align, Range(ALIGNMENT_PREFIX)), ALIGNMENT_SEP)
         IN [i \in DOMAIN parts |-> IntOf(parts[i])]

\* Lines 143-146: one direction of the boundary expansion, from index i.
RECURSIVE Expand(_, _, _, _, _)
Expand(indices, i, offset, toks, lbl) ==
    IF 0 <= i /\ i < Len(toks) /\ IsIn(toks[i + 1], lbl)
    THEN Expand(Append(indices, i), i + offset, offset, toks, lbl)
    ELSE indices

\* Lines 141-146: leftwards from indices[0], then rightwards from indices[-1].
BoundaryExpand(indices, toks, lbl) ==
    IF indices = <<>> THEN indices
    ELSE LET left == Expand(indices, indices[1] - 1, 0 - 1, toks, lbl)
         IN Expand(left, left[Len(left)] + 1, 1, toks, lbl)

Count(toks, token) == Cardinality({i \in DOMAIN toks : toks[i] = token})

\* Lines 148-151: every token longer than 2 that the label contains and that
\* occurs once in the sentence.
RECURSIVE Contained(_, _, _, _)
Contained(indices, i, toks, lbl) ==
    IF i >= Len(toks) THEN indices
    ELSE LET token == toks[i + 1]
             hit == /\ i \notin Range(indices)
                    /\ Len(token) > 2
                    /\ IsIn(token, StripChars(strip(lbl), {"\""}))
                    /\ Count(toks, token) = 1
         IN Contained(IF hit THEN Append(indices, i) ELSE indices, i + 1, toks, lbl)

\* Lines 134-151: the indices of one triple.
IndicesOf(triple, toks, alignments, role_alignments) ==
    LET explicit == ParseAlign(alignments[triple]) \o ParseAlign(role_alignments[triple])
        lbl == Str(triple[3])
    IN Contained(BoundaryExpand(explicit, toks, lbl), 0, toks, lbl)

\* preterminals.setdefault(i, []).append(node)
SetDefaultAppend(pre, i, node) ==
    IF \E j \in DOMAIN pre : pre[j][1] = i
    THEN LET j == CHOOSE k \in DOMAIN pre : pre[k][1] = i
         IN [pre EXCEPT ![j] = <<i, Append(pre[j][2], node)>>]
    ELSE Append(pre, <<i, <<node>>>>)

RECURSIVE AppendAll(_, _, _)
AppendAll(pre, indices, node) ==
    IF indices = <<>> THEN pre
    ELSE AppendAll(SetDefaultAppend(pre, Head(indices), node), Tail(indices), node)

\* Lines 130-154, over self.nodes from entry k on.
RECURSIVE AlignLoop(_, _, _, _, _, _)
AlignLoop(pre, ns, k, toks, alignments, role_alignments) ==
    IF k > Len(ns) THEN pre
    ELSE AlignLoop(AppendAll(pre, IndicesOf(ns[k][1], toks, alignments, role_alignments),
                             ns[k][2]),
                   ns, k + 1, toks, alignments, role_alignments)

align_nodes(ns, toks, alignments, role_alignments) ==
    AlignLoop(<<>>, ns, 1, toks, alignments, role_alignments)

\* ------------------------------------------------------------- _build_layer0
\* The test of line 126 left out.
NeverParent(es, parent, terminal) == TRUE
\* Line 126: parent not in terminal.parents.
NotYetParent(es, parent, terminal) == parent \notin Range(Parents(es, terminal))

\* Lines 125-127: the remote edges from the parents after the first.
RECURSIVE RemoteParents(_, _, _, _)
RemoteParents(es, rest, tag, terminal) ==
    IF rest = <<>> THEN es
    ELSE RemoteParents(IF NotYetParent(es, Head(rest), terminal)
                       THEN Append(es, RemoteEdge(es, Head(rest), tag, terminal))
                       ELSE es,
                       Tail(rest), tag, terminal)

\* Lines 116-127, over the items of preterminals from item k on. The graph is
\* the record of l1.all, the edges and the labels.
RECURSIVE Layer0Loop(_, _, _, _)
Layer0Loop(g, pre, k, toks) ==
    IF k > Len(pre) THEN g
    ELSE LET i == pre[k][1]
             parents == pre[k][2]
             punct == <<1, Len(g.all) + 1>>
             e1 == PrimaryEdge(g.edges, parents[1], TagPunctuation, punct)
             e2 == PrimaryEdge(Append(g.edges, e1), punct, TagTerminal, Terminal(i))
         IN IF is_punct(toks[i + 1])
            THEN \* l1.add_punct(parents[0], terminal)
                 Layer0Loop([all |-> Append(g.all, punct),
                             edges |-> RemoteParents(g.edges \o <<e1, e2>>, Tail(parents),
                                                     TagPunctuation, punct),
                             label |-> (punct :> NodePunctuation) @@ g.label],
                            pre, k + 1, toks)
            ELSE Layer0Loop([all |-> g.all,
                             edges |-> RemoteParents(
                                 Append(g.edges, PrimaryEdge(g.edges, parents[1], TagTerminal,
                                                             Terminal(i))),
                                 Tail(parents), TagTerminal, Terminal(i)),
                             label |-> g.label],
                            pre, k + 1, toks)

_build_layer0(pre, g, toks) == Layer0Loop(g, pre, 1, toks)

\* The alignments in use for a sentence of n tokens: one index, or the first two.
AlignStrings(n) ==
    {None} \cup {ALIGNMENT_PREFIX \o StrOfInt(i) : i \in 0..(n - 1)}
           \cup (IF n >= 2 THEN {ALIGNMENT_PREFIX \o <<"0", ALIGNMENT_SEP, "1">>} ELSE {})

\* Line 60: self._build_layer0(self.align_nodes(amr), l1, l0). The sentence and
\* the alignments of the graph are inputs: at most one triple carries explicit
\* alignments, and its role alignment, if any, repeats them.
AttachTerminals ==
    /\ pc = "built"
    /\ \E toks \in TokenLists(MaxTokens), k \in 0..Len(nodes) :
       \E al \in AlignStrings(Len(toks)) : \E ral \in {None, al} :
          /\ (k = 0) = (al = None)
          /\ LET alignments == [t \in Range(triples) |->
                                   IF k > 0 /\ t = nodes[k][1] THEN al ELSE None]
                 role_alignments == [t \in Range(triples) |->
                                   IF k > 0 /\ t = nodes[k][1] THEN ral ELSE None]
                 pre == align_nodes(nodes, toks, alignments, role_alignments)
                 g == _build_layer0(pre, [all |-> l1all, edges |-> edges, label |-> label],
                                    toks)
             IN /\ tokens' = toks
                /\ amr_alignments' = <<alignments, role_alignments>>
                /\ preterminals' = pre
                /\ l1all' = g.all
                /\ edges' = g.edges
                /\ label' = g.label
    /\ pc' = "attached"
    /\ UNCHANGED <<triples, remove_cycles, layers, err, pending, visited, variables,
                   nodes, last, implicit, ipending>>
    /\ UNCHANGED <<expVars, fmtVars>>

\* ------------------------------------------------------------- _update_implicit
\* Line 159.
ImplicitStart ==
    /\ pc = "attached"
    /\ ipending' = SelectSeq(l1all, LAMBDA n : Children(edges, n) = <<>>)
    /\ pc' = "implicit"
    /\ UNCHANGED <<triples, remove_cycles, layers, tokens, err, pending, visited,
                   variables, nodes, l1all, edges, label, last, preterminals, implicit,
                   amr_alignments>>
    /\ UNCHANGED <<expVars, fmtVars>>

\* Line 166: all(n.attrib.get("implicit") for n in node.children)
AllImplicit(imp, node) == \A n \in Range(Children(edges, node)) : n \in imp

\* Lines 160-168: one iteration of the while loop.
ImplicitStep ==
    /\ pc = "implicit"
    /\ ipending # <<>>
    /\ LET node == Head(ipending)
           rest == Tail(ipending)
       IN IF node \in Heads(edges, l1all)
          THEN /\ ipending' = rest
               /\ implicit' = implicit
          ELSE IF \E n \in Range(Children(edges, node)) : n \in Range(rest)
          THEN /\ ipending' = Append(rest, node)
               /\ implicit' = implicit
          ELSE IF AllImplicit(implicit, node)
          THEN /\ implicit' = implicit \cup {node}
               /\ ipending' = rest \o Parents(edges, node)
          ELSE /\ ipending' = rest
               /\ implicit' = implicit
    /\ UNCHANGED <<triples, remove_cycles, layers, tokens, pc, err, pending, visited,
                   variables, nodes, l1all, edges, label, last, preterminals,
                   amr_alignments>>
    /\ UNCHANGED <<expVars, fmtVars>>

\* Line 160: the queue is empty.
ImplicitDone ==
    /\ pc = "implicit"
    /\ ipending = <<>>
    /\ pc' = "done"
    /\ UNCHANGED <<triples, remove_cycles, layers, tokens, err, pending, visited,
                   variables, nodes, l1all, edges, label, last, preterminals, implicit,
                   ipending, amr_alignments>>
    /\ UNCHANGED <<expVars, fmtVars>>

\* ------------------------------------------------------------- _to_triples
\* Bound: number of edges of an exported graph (SpecExport).
MaxEdges == 3

\* DEP_REPLACEMENT.get(tag, tag)
DepReplacement(tag) ==
    IF tag = INSTANCE_OF THEN <<"i", "n", "s", "t", "a", "n", "c", "e">> ELSE tag

\* The nodes and edges of the graphs exported.
ExportNodes == <<TopNode, <<1, 2>>, <<1, 3>>>>
ExportEdgeShapes ==
    {[parent |-> p, tag |-> <<"o", "p">>, child |-> c, remote |-> r] :
        p \in Range(ExportNodes), c \in Range(ExportNodes), r \in BOOLEAN}
    \cup {[parent |-> p, tag |-> TagPunctuation, child |-> c, remote |-> FALSE] :
        p \in Range(ExportNodes), c \in Range(ExportNodes)}
    \cup {[parent |-> p, tag |-> TagTerminal, child |-> Terminal(0), remote |-> r] :
        p \in Range(ExportNodes), r \in BOOLEAN}

ShapeRank(e) == (e.parent[2] * 10 + e.child[1] * 4 + e.child[2]) * 10
                + (IF e.remote THEN 5 ELSE 0) + Len(e.tag)

\* The edges of a set, each with its identity, in a list.
RECURSIVE EdgeList(_, _)
EdgeList(S, es) ==
    IF S = {} THEN es
    ELSE LET m == CHOOSE x \in S : \A y \in S : ShapeRank(x) <= ShapeRank(y)
         IN EdgeList(S \ {m}, Append(es, Edge(Len(es) + 1, m.parent, m.tag, m.child,
                                              m.remote)))

\* amrutil.resolve_label(node): the label attribute of the node.
resolve_label(node) == label[node]

\* _IdGenerator.__call__, lines 190-194: the new value of _id and the result.
IdGenCall(id, lbl) ==
    IF lbl = VARIABLE_LABEL
    THEN [id |-> id + 1, result |-> lbl \o StrOfInt(id + 1)]
    ELSE [id |-> id, result |-> lbl]

\* dict.setdefault(key, default): the dictionary afterwards.
Overwrite(d, key, default) == (key :> default) @@ d
SetDefault(d, key, default) == IF key \in DOMAIN d THEN d ELSE (key :> default) @@ d

\* _node_label(node), line 197. The argument of setdefault is evaluated before
\* the call, so id_gen runs on every resolution.
NodeLabel(lbls, id, node) ==
    LET gen == IdGenCall(id, resolve_label(node))
        after == SetDefault(lbls, node, gen.result)
    IN [labels |-> after, id |-> gen.id, result |-> strip(after[node])]

\* Line 205: the guard of the loop body.
\* A guard that lets one visited edge through.
VisitedOnceMore(edge) ==
    /\ edge.tag \notin TERMINAL_TAGS
    /\ edge \in xvisited => Len(emitted) = Cardinality(xvisited)
Emits(edge) == edge \notin xvisited /\ edge.tag \notin TERMINAL_TAGS

\* Lines 199-202.
ExportStart ==
    /\ pc = "xstart"
    /\ xpending' = Outgoing(edges, TopNode)
    /\ xvisited' = {}
    /\ labels' = <<>>
    /\ idgen' = 0
    /\ pc' = "export"
    /\ UNCHANGED <<emitted, triples, remove_cycles, layers, tokens, err, pending, visited,
                   variables, nodes, l1all, edges, label, last, preterminals, implicit,
                   ipending, amr_alignments>>
    /\ UNCHANGED fmtVars

\* Lines 203-209: one iteration of the while loop.
ExportStep ==
    /\ pc = "export"
    /\ xpending # <<>>
    /\ LET edge == Head(xpending) IN
       IF Emits(edge)
       THEN LET p == NodeLabel(labels, idgen, edge.parent)
                c == NodeLabel(p.labels, p.id, edge.child)
            IN /\ xvisited' = xvisited \cup {edge}
               /\ xpending' = Tail(xpending) \o Outgoing(edges, edge.child)
               /\ labels' = c.labels
               /\ idgen' = c.id
               /\ emitted' = Append(emitted,
                                    [edge |-> edge,
                                     triple |-> <<p.result, DepReplacement(edge.tag),
                                                  c.result>>])
       ELSE /\ xpending' = Tail(xpending)
            /\ UNCHANGED <<xvisited, labels, idgen, emitted>>
    /\ UNCHANGED impVars
    /\ UNCHANGED fmtVars

\* Line 203: the queue is empty.
ExportDone ==
    /\ pc = "export"
    /\ xpending = <<>>
    /\ pc' = "xdone"
    /\ UNCHANGED <<xpending, xvisited, labels, idgen, emitted, triples, remove_cycles,
                   layers, tokens, err, pending, visited, variables, nodes, l1all, edges,
                   label, last, preterminals, implicit, ipending, amr_alignments>>
    /\ UNCHANGED fmtVars

\* ------------------------------------------------------------- from_format
\* Bound: number of input lines (SpecFormat).
MaxLines == 3

\* A line is its indentation and its words (the pieces between whitespace);
\* line.lstrip() drops the indentation.
Line(indent, words) == [indent |-> indent, words |-> words]
Hash == <<"#">>
IdKey == <<":", ":", "i", "d">>
TokKey == <<":", ":", "t", "o", "k">>
SntKey == <<":", ":", "s", "n", "t">>
LineWords ==
    { <<>>,                                                   \* a blank line
      << <<"(", "a">>, <<"/">>, <<"d", "o", "g", ")">> >>,    \* a line of the graph
      <<Hash, IdKey, <<"x", "1">>>>,                          \* # ::id x1
      <<Hash, IdKey, <<"x", "2">>>>,                          \* # ::id x2
      <<Hash, TokKey, <<"@", "d", "o", "g", "@">>>>,          \* # ::tok @dog@
      <<Hash, SntKey, <<"d", "o", "g">>, <<"<", "b", ">">>>>, \* # ::snt dog <b>
      <<Hash, <<":", ":", "s", "a", "v", "e">>>> }            \* # ::save
InputLines == {Line(i, w) : i \in {0, 1}, w \in LineWords}

RECURSIVE LinesUpTo(_)
LinesUpTo(n) ==
    IF n = 0 THEN {<<>>}
    ELSE LET P == LinesUpTo(n - 1) IN P \cup {Append(s, l) : s \in P, l \in InputLines}

\* re.match(ID_PATTERN, line): the group, or None.
MatchId(words) ==
    IF Len(words) >= 3 /\ words[1] = Hash /\ words[2] = IdKey THEN words[3] ELSE None

\* re.match(TOK_PATTERN, line): whether it matches; the group is what follows.
MatchTok(words) == Len(words) >= 2 /\ words[1] = Hash /\ words[2] \in {TokKey, SntKey}

\* re.sub("\\\\|(?<=<)[^<>]+(?=>)", "", s) on one word: the backslashes and
\* what stands between < and > are removed.
RECURSIVE Unescape(_, _)
Unescape(w, inside) ==
    IF w = <<>> THEN <<>>
    ELSE LET ch == Head(w) IN
         IF ch = "\\" THEN Unescape(Tail(w), inside)
         ELSE IF ch = "<" THEN <<ch>> \o
                 Unescape(Tail(w), \E i \in DOMAIN Tail(w) :
                                      /\ Tail(w)[i] = ">" /\ i > 1
                                      /\ \A k \in 1..(i - 1) : Tail(w)[k] \notin {"<", ">"})
         ELSE IF ch = ">" THEN <<ch>> \o Unescape(Tail(w), FALSE)
         ELSE IF inside THEN Unescape(Tail(w), inside)
         ELSE <<ch>> \o Unescape(Tail(w), inside)

\* Line 45: the tokens of a ::tok or ::snt line.
ParseTokens(words) ==
    LET rest == SubSeq(words, 3, Len(words))
        clean == [i \in DOMAIN rest |-> Unescape(rest[i], FALSE)]
        kept == SelectSeq(clean, LAMBDA w : w # <<>>)
    IN [i \in DOMAIN kept |-> StripChars(kept[i], {"@"})]

\* Line 54: self.amr_id or self.passage_id
PassageId(aid, pid) == IF aid # None THEN aid ELSE pid

\* _build_passage, lines 51-64, for what it yields: the passage (its ID, the
\* lines and tokens it was built from) and, with return_amr, the AMR id. Line 56
\* resets self.amr_id before line 64 reads it. resolved is the identifier of the
\* record's ::id line (history).
BuildPassage(aid, toks) ==
    LET passage == PassageId(aid, passage_id)
        amr_id_56 == None
    IN [id |-> passage,
        lines |-> flines,
        tokens |-> toks,
        shape |-> IF return_amr THEN "triple" ELSE "passage",
        third |-> IF return_amr THEN amr_id_56 ELSE None,
        resolved |-> aid]

\* Lines 33-47: one iteration of the for loop.
ReadLine ==
    /\ pc = "lines"
    /\ input # <<>>
    /\ LET words == Head(input).words IN
       /\ input' = Tail(input)
       /\ IF words # <<>> /\ words[1][1] # COMMENT_PREFIX
          THEN /\ flines' = Append(flines, words)
               /\ UNCHANGED <<amr_id, ftokens, out>>
          ELSE LET id == IF words = <<>> THEN amr_id
                         ELSE IF MatchId(words) # None THEN MatchId(words) ELSE amr_id
                   toks == IF words # <<>> /\ MatchId(words) = None /\ MatchTok(words)
                           THEN ParseTokens(words) ELSE ftokens
               IN IF flines # <<>>
                  THEN \* lines 46-47, with amr_id and tokens as just set
                       /\ out' = Append(out, BuildPassage(id, toks))
                       /\ flines' = <<>>
                       /\ amr_id' = None
                       /\ ftokens' = None
                  ELSE /\ amr_id' = id
                       /\ ftokens' = toks
                       /\ UNCHANGED <<flines, out>>
    /\ UNCHANGED <<pc, passage_id, return_amr>>
    /\ UNCHANGED <<triples, remove_cycles, layers, tokens, err, pending, visited,
                   variables, nodes, l1all, edges, label, last, preterminals, implicit,
                   ipending, amr_alignments>>
    /\ UNCHANGED expVars

\* Lines 48-49: the end of the input.
EndOfInput ==
    /\ pc = "lines"
    /\ input = <<>>
    /\ pc' = "end"
    /\ IF flines # <<>>
       THEN /\ out' = Append(out, BuildPassage(amr_id, ftokens))
            /\ flines' = <<>>
            /\ amr_id' = None
            /\ ftokens' = None
       ELSE UNCHANGED <<flines, amr_id, ftokens, out>>
    /\ UNCHANGED <<input, passage_id, return_amr>>
    /\ UNCHANGED <<triples, remove_cycles, layers, tokens, err, pending, visited,
                   variables, nodes, l1all, edges, label, last, preterminals, implicit,
                   ipending, amr_alignments>>
    /\ UNCHANGED expVars

\* ------------------------------------------------------------- specifications
ImportIdle ==
    /\ triples = <<>>
    /\ remove_cycles = TRUE
    /\ layers = {}
    /\ err = "none"
    /\ pending = <<>>
    /\ visited = {}
    /\ variables = <<>>
    /\ nodes = <<>>
    /\ last = History("none", <<>>, NoNode)
    /\ tokens = <<>>
    /\ preterminals = <<>>
    /\ implicit = {}
    /\ ipending = <<>>
    /\ amr_alignments = <<>>

ExportIdle ==
    /\ xpending = <<>>
    /\ xvisited = {}
    /\ labels = <<>>
    /\ idgen = 0
    /\ emitted = <<>>

FormatIdle ==
    /\ input = <<>>
    /\ passage_id = None
    /\ return_amr = FALSE
    /\ flines = <<>>
    /\ amr_id = None
    /\ ftokens = None
    /\ out = <<>>

\* The state at the call of _build_layer1 on the given list of triples.
ImportInit(list) ==
    /\ triples = list
    /\ pc = "start"
    /\ err = "none"
    /\ pending = <<>>
    /\ visited = {}
    /\ variables = <<>>
    /\ nodes = <<>>
    /\ l1all = <<TopNode>>
    /\ edges = <<>>
    /\ label = (TopNode :> None)
    /\ last = History("none", <<>>, NoNode)
    /\ tokens = <<>>
    /\ preterminals = <<>>
    /\ implicit = {}
    /\ ipending = <<>>
    /\ amr_alignments = <<>>
    /\ ExportIdle
    /\ FormatIdle

\* _build_layer1 on a graph with no, one or two :top triples.
Init ==
    /\ \E body \in UpTo(MaxTriples, BodyTriples), tops \in {{}, {TopA}, {TopA, TopB}} :
          ImportInit(SortTriples(tops \cup body))
    /\ remove_cycles \in BOOLEAN
    /\ layers \in {{}, {"wiki"}}

Next == BuildStart \/ WalkStep \/ WalkDone

Spec == Init /\ [][Next]_vars

\* _build_passage on a graph with one :top triple.
InitPassage ==
    /\ \E body \in UpTo(MaxPassageTriples, PassageTriples) :
          ImportInit(SortTriples({TopA} \cup body))
    /\ remove_cycles \in BOOLEAN
    /\ layers = {}

NextPassage ==
    \/ BuildStart
    \/ WalkStep
    \/ WalkDone
    \/ AttachTerminals
    \/ ImplicitStart
    \/ ImplicitStep
    \/ ImplicitDone

SpecPassage == InitPassage /\ [][NextPassage]_vars

\* The loop of _update_implicit runs on while its queue is not empty.
SpecPassageLive == SpecPassage /\ WF_vars(NextPassage)

\* _to_triples on a graph of at most MaxEdges edges; the top node is labelled
\* as a variable, the other nodes as a variable or as a constant.
InitExport ==
    /\ pc = "xstart"
    /\ l1all = ExportNodes
    /\ \E S \in UpTo(MaxEdges, ExportEdgeShapes) : edges = EdgeList(S, <<>>)
    /\ \E l2 \in {VARIABLE_LABEL, Repr("dog")}, l3 \in {VARIABLE_LABEL, Repr("dog")} :
          label = (TopNode :> VARIABLE_LABEL) @@ (<<1, 2>> :> l2) @@ (<<1, 3>> :> l3)
    /\ ImportIdle
    /\ ExportIdle
    /\ FormatIdle

\* _to_triples on a graph of variable nodes with at most MaxEdges edges, among
\* them primary and remote edges in any direction and the edge to a terminal.
LiveEdgeShapes ==
    {s \in ExportEdgeShapes : s.tag = TagTerminal => (s.parent = <<1, 2>> /\ ~s.remote)}
    \ {s \in ExportEdgeShapes : s.tag = TagPunctuation}

InitExportLive ==
    /\ pc = "xstart"
    /\ l1all = ExportNodes
    /\ \E S \in UpTo(MaxEdges, LiveEdgeShapes) : edges = EdgeList(S, <<>>)
    /\ label = [n \in Range(ExportNodes) |-> VARIABLE_LABEL]
    /\ ImportIdle
    /\ ExportIdle
    /\ FormatIdle

NextExport == ExportStart \/ ExportStep \/ ExportDone

SpecExport == InitExport /\ [][NextExport]_vars

\* The loop of _to_triples runs on while the caller consumes the generator.
SpecExportLive == InitExportLive /\ [][NextExport]_vars /\ WF_vars(NextExport)

\* from_format on at most MaxLines lines.
InitFormat ==
    /\ pc = "lines"
    /\ input \in LinesUpTo(MaxLines)
    /\ passage_id \in {None, <<"p">>}
    /\ return_amr \in BOOLEAN
    /\ flines = <<>>
    /\ amr_id = None
    /\ ftokens = None
    /\ out = <<>>
    /\ l1all = <<>>
    /\ edges = <<>>
    /\ label = <<>>
    /\ ImportIdle
    /\ ExportIdle

NextFormat == ReadLine \/ EndOfInput

SpecFormat == InitFormat /\ [][NextFormat]_vars

\* ------------------------------------------------------------- properties
\* The nodes reachable from the nodes of S over the edges of E.
RECURSIVE ReachSet(_, _)
ReachSet(E, S) ==
    LET T == S \cup {e.child : e \in {f \in E : f.parent \in S}}
    IN IF T = S THEN S ELSE ReachSet(E, T)

PrimaryEdges == {e \in Range(edges) : ~e.remote}
\* The nodes below n: what its children reach.
Descendants(E, n) == ReachSet(E, {e.child : e \in {f \in E : f.parent = n}})
HasCycle(E) == \E e \in E : e.parent \in ReachSet(E, {e.child})

\* The variables and constants that x reaches in the triple graph, x included.
RECURSIVE TripleReach(_)
TripleReach(S) ==
    LET T == S \cup {t[3] : t \in {u \in Range(triples) : u[1] \in S}}
    IN IF T = S THEN S ELSE TripleReach(T)

TopCount == Cardinality({i \in DOMAIN triples : triples[i][2] = TOP_DEP})
VariableHeads == \A t \in Range(triples) : t[2] # TOP_DEP => t[1] \in Vars

\* C1 as stated: the import fails with the :top assertion when the graph has
\* no or several :top triples, and does not fail when it has exactly one.
C1_RootUniqueness ==
    /\ (TopCount # 1 /\ pc # "start") => (pc = "failed" /\ err = "top")
    /\ TopCount = 1 => pc # "failed"

\* C1 amended: once _build_layer1 has started, the :top assertion has failed
\* exactly when the number of :top triples is not one; with exactly one :top
\* triple and only variables as heads of the other triples, no assertion fails.
C1_RootUniquenessAmended ==
    /\ pc # "start" => ((pc = "failed" /\ err = "top") <=> TopCount # 1)
    /\ (TopCount = 1 /\ VariableHeads) => pc # "failed"

\* A graph with one :top triple and three more triples has been built.
C1_Witness == pc = "built" /\ TopCount = 1 /\ VariableHeads /\ Len(nodes) = 3

\* Entry i of self.nodes is a reentrancy: its node existed before the triple
\* was processed.
Reentrant(i) == nodes[i][2] = TopNode \/ \E j \in 1..(i - 1) : nodes[j][2] = nodes[i][2]

RemoteEdgesOf(triple, node) ==
    {e \in Range(edges) : /\ e.remote
                          /\ e.parent = variables[triple[1]]
                          /\ e.tag = LStrip(triple[2], {DEP_PREFIX})
                          /\ e.child = node}

\* Entry i is a reentrant triple whose dependent's node is the head's node or
\* an ancestor of it in the primary tree.
ToAncestor(i) ==
    Reentrant(i) /\ variables[nodes[i][1][1]] \in ReachSet(PrimaryEdges, {nodes[i][2]})

\* C3: for a processed reentrant triple whose dependent's node is an ancestor of
\* the head's node in the primary tree, no remote edge is added with
\* remove_cycles, and without it the remote edge from the head's node to the
\* dependent's node is added and the edges contain a cycle.
C3_CycleRemoval ==
    \A i \in DOMAIN nodes :
        ToAncestor(i) =>
            IF remove_cycles
            THEN RemoteEdgesOf(nodes[i][1], nodes[i][2]) = {}
            ELSE /\ Cardinality(RemoteEdgesOf(nodes[i][1], nodes[i][2])) = 1
                 /\ HasCycle(Range(edges))

\* A reentrant triple to a proper ancestor has been processed with
\* remove_cycles, after which another triple was processed.
C3_Witness ==
    /\ remove_cycles
    /\ \E i \in DOMAIN nodes :
          /\ ToAncestor(i)
          /\ variables[nodes[i][1][1]] # nodes[i][2]
          /\ i < Len(nodes)

\* The root variable: the dependent of the :top triple.
Root == triples[CHOOSE i \in DOMAIN triples : triples[i][2] = TOP_DEP][3]

FirstWithDep(i) == \A j \in 1..(i - 1) : nodes[j][1][3] # nodes[i][1][3]
\* The triple closes a cycle of the triple graph: its dependent reaches its head.
ClosesCycle(t) == t[1] \in TripleReach({t[3]})

\* The primary edge that the triple of entry i made to the node of entry i.
CreatedBy(i) ==
    {e \in Range(edges) : /\ ~e.remote
                          /\ e.parent = variables[nodes[i][1][1]]
                          /\ e.tag = LStrip(nodes[i][1][2], {DEP_PREFIX})
                          /\ e.child = nodes[i][2]}

\* What C4 says of entry i of self.nodes, whose triple has a variable as its
\* dependent, when creates tells whether the triple is to create the node.
VariableEntry(i, creates) ==
    LET t == nodes[i][1]
        n == nodes[i][2]
    IN /\ variables[t[3]] = n
       /\ IF creates
          THEN /\ Cardinality(CreatedBy(i)) = 1
               /\ Cardinality({e \in Range(edges) : e.child = n /\ ~e.remote}) = 1
               /\ \A j \in 1..(i - 1) : nodes[j][2] # n
          ELSE /\ CreatedBy(i) = {}
               /\ ~ClosesCycle(t) => Cardinality(RemoteEdgesOf(t, n)) = 1

\* Every triple with a constant as its dependent has a node of its own.
ConstantEntry(i) ==
    /\ \A j \in DOMAIN nodes : j # i => nodes[j][2] # nodes[i][2]
    /\ \A x \in DOMAIN variables : variables[x] # nodes[i][2]
    /\ nodes[i][2] \in Range(l1all)

\* No two variables share a node, and every node but the top one was made by
\* one processed triple.
OneNodeEach ==
    /\ \A x, y \in DOMAIN variables : variables[x] = variables[y] => x = y
    /\ Len(l1all) = 1 + Cardinality({i \in DOMAIN nodes : CreatedBy(i) # {}})

\* C4 as stated: each variable has one node; the first processed triple with the
\* variable as its dependent creates the node with a primary edge from its head,
\* each later one that closes no cycle adds one remote edge from its head's node
\* to that node; each triple with a constant dependent creates a node of its own.
C4_OneNodePerVariable ==
    /\ OneNodeEach
    /\ \A i \in DOMAIN nodes :
          IF nodes[i][1][3] \in Vars THEN VariableEntry(i, FirstWithDep(i))
          ELSE ConstantEntry(i)

\* C4 amended: the same for every variable but the root variable, which is
\* mapped to the top node before any triple is processed, so that every
\* processed triple with the root variable as its dependent is a later one.
C4_OneNodePerVariableAmended ==
    /\ OneNodeEach
    /\ pc \in {"walk", "built"} => variables[Root] = TopNode
    /\ \A i \in DOMAIN nodes :
          IF nodes[i][1][3] \in Vars
          THEN VariableEntry(i, FirstWithDep(i) /\ nodes[i][1][3] # Root)
          ELSE ConstantEntry(i)

\* A variable other than the root has its node, made by a first triple, and a
\* later triple that closes no cycle has added a remote edge to it; a triple
\* with a constant dependent was processed too.
C4_Witness ==
    /\ \E i, j \in DOMAIN nodes :
          /\ i < j
          /\ nodes[i][1][3] = nodes[j][1][3]
          /\ nodes[i][1][3] \in Vars \ {Root}
          /\ ~ClosesCycle(nodes[j][1])
          /\ RemoteEdgesOf(nodes[j][1], nodes[j][2]) # {}
    /\ \E k \in DOMAIN nodes : nodes[k][1][3] \in Consts

\* C8: a processed triple whose relation belongs to a layer that is not enabled
\* creates no node and adds no edge; with the layer enabled the triple is kept
\* (it has its entry in self.nodes).
C8_WikiFiltered ==
    \A t \in visited :
        LET rel == LStrip(t[2], {DEP_PREFIX}) IN
        rel = WIKI /\ pc # "failed" =>
            IF "wiki" \in layers
            THEN \E i \in DOMAIN nodes : nodes[i][1] = t
            ELSE /\ \A i \in DOMAIN nodes : nodes[i][1] # t
                 /\ \A e \in Range(edges) : e.tag # rel

PrimaryParents(n) == {e \in PrimaryEdges : e.child = n}
IsTerminal(n) == n[1] = 0

\* C2: at every step of the import the primary edges form a tree rooted at the
\* top node: every layer 1 node but the top one has exactly one primary parent
\* and is reached from the top node over primary edges, the top node has no
\* primary parent, and no terminal has two primary parents.
C2_PrimaryTree ==
    /\ PrimaryParents(TopNode) = {}
    /\ \A n \in Range(l1all) \ {TopNode} :
          /\ Cardinality(PrimaryParents(n)) = 1
          /\ n \in ReachSet(PrimaryEdges, {TopNode})
    /\ \A e \in Range(edges) :
          /\ e.parent \in Range(l1all)
          /\ IsTerminal(e.child) \/ e.child \in Range(l1all)
          /\ IsTerminal(e.child) => Cardinality(PrimaryParents(e.child)) = 1

\* The terminals are attached to a graph with a reentrancy kept as a remote
\* edge, a punctuation node and a terminal with a remote parent.
C2_Witness ==
    /\ pc = "attached"
    /\ \E e \in Range(edges) : e.remote /\ ~IsTerminal(e.child) /\ e.tag = <<"o", "p">>
    /\ \E n \in Range(l1all) : label[n] = NodePunctuation
    /\ \E e \in Range(edges) : e.remote /\ IsTerminal(e.child)

\* Whether a terminal is below n, over all edges.
TerminalBelow(n) == \E m \in Descendants(Range(edges), n) : IsTerminal(m)

\* C6: when _update_implicit has finished, a layer 1 node other than the top
\* node has the implicit flag exactly when no terminal is in its subtree, and
\* the top node does not have the flag.
C6_ImplicitIffNoTerminal ==
    pc = "done" =>
        /\ TopNode \notin implicit
        /\ \A n \in Range(l1all) \ {TopNode} : (n \in implicit) <=> ~TerminalBelow(n)

\* The occurrences of nodes in the emitted triples: the node and the identifier
\* emitted for it.
Occurrences ==
    {<<emitted[i].edge.parent, emitted[i].triple[1]>> : i \in DOMAIN emitted}
    \cup {<<emitted[i].edge.child, emitted[i].triple[3]>> : i \in DOMAIN emitted}

IsVariableNode(n) == label[n] = VARIABLE_LABEL

\* C5: within one export every occurrence of a node carries the same
\* identifier, and two variable nodes never carry the same identifier.
C5_VariableStability ==
    \A o1, o2 \in Occurrences :
        /\ o1[1] = o2[1] => o1[2] = o2[2]
        /\ (o1[1] # o2[1] /\ IsVariableNode(o1[1]) /\ IsVariableNode(o2[1])) => o1[2] # o2[2]

\* The export has ended with a variable node in three emitted triples, as a
\* parent and as a child, and with two more variable nodes named.
C5_Witness ==
    /\ pc = "xdone"
    /\ Len(emitted) = 3
    /\ \E n \in Range(l1all) :
          /\ IsVariableNode(n)
          /\ \E i, j \in DOMAIN emitted :
                i # j /\ emitted[i].edge.parent = n /\ emitted[j].edge.child = n
    /\ Cardinality({o[1] : o \in {x \in Occurrences : IsVariableNode(x[1])}}) = 3

NoEdgeEmittedTwice ==
    \A i, j \in DOMAIN emitted : emitted[i].edge = emitted[j].edge => i = j

\* C7: the export ends on every graph, with the queue empty, and no edge is
\* emitted after it was added to the visited edges: no edge is emitted twice.
C7_ExportTerminates ==
    <>(pc = "xdone" /\ xpending = <<>> /\ NoEdgeEmittedTwice)

\* The export has ended on a graph in which a remote edge closes a cycle, and
\* an edge that was visited came up in the queue again.
C7_Witness ==
    /\ pc = "xdone"
    /\ xpending = <<>>
    /\ \E e \in xvisited : e.remote /\ e.parent \in ReachSet(PrimaryEdges, {e.child})
    /\ Len(emitted) = 3

\* C9: when the caller gives a passage_id, every passage produced is created
\* with it, whatever the ::id line of its record says.
C9_PassageIdOverrides ==
    passage_id # None => \A i \in DOMAIN out : out[i].id = passage_id

\* C10: with return_amr every element produced is a triple whose third
\* component is the identifier resolved from the ::id line of its record.
C10_ReturnsResolvedId ==
    return_amr => \A i \in DOMAIN out :
                     out[i].shape = "triple" /\ out[i].third = out[i].resolved

\* A comment line that matches neither ID_PATTERN nor TOK_PATTERN.
OtherComment(words) ==
    /\ words # <<>>
    /\ words[1][1] = COMMENT_PREFIX
    /\ MatchId(words) = None
    /\ ~MatchTok(words)

ReadsOtherComment == pc = "lines" /\ input # <<>> /\ OtherComment(Head(input).words)

\* C11: a comment line that matches neither pattern is ignored (no record, the
\* lines, the id and the tokens unchanged), and a record is emitted only by a
\* blank line after graph lines or by the end of the input.
C11_OtherCommentIgnored ==
    [][/\ ReadsOtherComment => UNCHANGED <<flines, amr_id, ftokens, out>>
       /\ out' # out => (pc' = "end" \/ (input # <<>> /\ Head(input).words = <<>>))]_vars

\* The graph of C12: (TOP, :top, a) and (a, :instance-of, dog), with the
\* sentence "dog", after the terminals were attached.
DogGraph ==
    /\ triples = <<TopA, <<"a", RelInstance, "dog">>>>
    /\ tokens = <<Str("dog")>>
    /\ pc \in {"attached", "implicit", "done"}

NonTerminals == {n \in Range(l1all) : n[1] = 1}

NamedVariables == {n \in DOMAIN labels : IsVariableNode(n)}

\* C13: names are allocated on first resolution only: the counter is the number
\* of variable nodes named so far, and these carry the names v1 .. vn.
C13_SequentialNames ==
    /\ idgen = Cardinality(NamedVariables)
    /\ {labels[n] : n \in NamedVariables}
       = {VARIABLE_LABEL \o StrOfInt(i) : i \in 1..Cardinality(NamedVariables)}

\* C14: the pass of _update_implicit ends on every graph the import builds,
\* with either value of remove_cycles: once started, its queue empties.
C14_ImplicitTerminates == (pc = "implicit") ~> (pc = "done" /\ ipending = <<>>)

\* C15: with remove_cycles the graph built has no cycle over primary and remote
\* edges together, after every processed triple, and every reentrant triple
\* whose dependent does not reach its head in the triple graph has its remote
\* edge.
C15_AcyclicWithRemoval ==
    remove_cycles =>
        /\ ~HasCycle(Range(edges))
        /\ \A i \in DOMAIN nodes :
              (Reentrant(i) /\ ~ClosesCycle(nodes[i][1])) =>
                  Cardinality(RemoteEdgesOf(nodes[i][1], nodes[i][2])) = 1

\* With remove_cycles one reentrant triple was dropped and another one, which
\* closes no cycle, has its remote edge.
C15_Witness ==
    /\ remove_cycles
    /\ pc = "built"
    /\ \E i, j \in DOMAIN nodes :
          /\ Reentrant(i) /\ ClosesCycle(nodes[i][1])
          /\ RemoteEdgesOf(nodes[i][1], nodes[i][2]) = {}
          /\ Reentrant(j) /\ ~ClosesCycle(nodes[j][1])
          /\ RemoteEdgesOf(nodes[j][1], nodes[j][2]) # {}

\* The explicit alignment indices of a triple, from both sources (lines 135-138).
ExplicitIndices(triple) ==
    ParseAlign(amr_alignments[1][triple]) \o ParseAlign(amr_alignments[2][triple])

\* The expansion with both scans starting from the explicit indices: leftwards
\* from the first, rightwards from the last.
ScansFromExplicit(indices, toks, lbl) ==
    Expand(Expand(indices, indices[1] - 1, 0 - 1, toks, lbl),
           indices[Len(indices)] + 1, 1, toks, lbl)

\* C16: for a triple with explicit alignment indices the expansion adds the run
\* of contained tokens left of the first index and the run right of the last
\* explicit index, whatever the leftward scan added.
C16_BoundaryExpansion ==
    pc \in {"attached", "implicit", "done"} =>
        \A i \in DOMAIN nodes :
            LET triple == nodes[i][1]
                explicit == ExplicitIndices(triple)
            IN explicit # <<>> =>
                  BoundaryExpand(explicit, tokens, Str(triple[3]))
                  = ScansFromExplicit(explicit, tokens, Str(triple[3]))

\* What the anchored nodes of token i are attached to: the terminal, or the
\* punctuation node that add_punct put above it.
AttachTarget(i) ==
    IF is_punct(tokens[i + 1])
    THEN CHOOSE w \in Range(l1all) :
            /\ label[w] = NodePunctuation
            /\ \E e \in Range(edges) : e.parent = w /\ e.child = Terminal(i)
    ELSE Terminal(i)

EdgesBetween(p, t) == {e \in Range(edges) : e.parent = p /\ e.child = t}

\* C17: for every token index with anchored nodes the terminal (or its
\* punctuation node) has exactly one primary parent, the first anchored node,
\* and exactly one remote edge from each other anchored node; no pair of a
\* parent and the terminal is joined by more than one edge.
C17_TerminalAttachment ==
    pc \in {"attached", "implicit", "done"} =>
        \A k \in DOMAIN preterminals :
            LET parents == preterminals[k][2]
                t == AttachTarget(preterminals[k][1])
            IN /\ {e.parent : e \in PrimaryParents(t)} = {parents[1]}
               /\ {e.parent : e \in {f \in Range(edges) : f.child = t}} = Range(parents)
               /\ \A p \in Range(parents) :
                     /\ Cardinality(EdgesBetween(p, t)) = 1
                     /\ p # parents[1] => \A e \in EdgesBetween(p, t) : e.remote
               /\ Cardinality(EdgesBetween(t, Terminal(preterminals[k][1])))
                  = (IF t = Terminal(preterminals[k][1]) THEN 0 ELSE 1)

\* A token has three anchored nodes, the first of them twice, and the terminal
\* is attached.
C17_Witness ==
    /\ pc = "attached"
    /\ \E k \in DOMAIN preterminals :
          /\ Len(preterminals[k][2]) = 3
          /\ Cardinality(Range(preterminals[k][2])) = 2
          /\ preterminals[k][2][1] = preterminals[k][2][2]

\* A constant that was processed as the dependent of a triple heads a triple.
ConstantHeadProcessed ==
    \E i \in DOMAIN nodes :
        /\ nodes[i][1][3] \in Consts
        /\ \E t \in Range(triples) : t[1] = nodes[i][1][3]

\* C18: in a graph where only variables head triples, every triple of the
\* queue has a head in the variable map and the head assertion never fails;
\* the assertion fails exactly when a processed constant dependent heads a
\* triple: it fails only on a triple headed by such a constant, and the walk
\* does not end with one.
C18_HeadResolved ==
    /\ VariableHeads =>
          /\ err # "head"
          /\ pc = "walk" => \A i \in DOMAIN pending : pending[i][1] \in DOMAIN variables
    /\ err = "head" =>
          /\ pc = "failed" /\ last.kind = "assert"
          /\ last.triple[1] \in Consts
          /\ \E i \in DOMAIN nodes : nodes[i][1][3] = last.triple[1]
    /\ pc = "built" => ~ConstantHeadProcessed

\* The head assertion has failed on a triple headed by a constant, after the
\* walk created a second node for that constant.
C18_Witness ==
    /\ err = "head"
    /\ last.triple[1] \in Consts
    /\ Cardinality({i \in DOMAIN nodes : nodes[i][1][3] = last.triple[1]}) = 2

\* The edges that are not terminal-tagged, and among them those whose parent the
\* top node reaches over such edges.
SemanticEdges == {e \in Range(edges) : e.tag \notin TERMINAL_TAGS}
EmittableEdges == {e \in SemanticEdges : e.parent \in ReachSet(SemanticEdges, {TopNode})}

\* The nodes within k semantic edges of the top node, and the depth of a node.
RECURSIVE Within(_)
Within(k) ==
    IF k = 0 THEN {TopNode}
    ELSE Within(k - 1) \cup {e.child : e \in {f \in SemanticEdges : f.parent \in Within(k - 1)}}
DepthOf(n) == CHOOSE k \in 0..Len(edges) : n \in Within(k) /\ \A j \in 0..(k - 1) : n \notin Within(j)

\* C19: the export emits exactly one triple for every edge that is not
\* terminal-tagged and that the top node reaches over such edges, none for a
\* terminal-tagged edge, and in breadth-first order: the parent of an emitted
\* triple is the top node or the child of a triple emitted earlier, and the
\* depth of the parents never decreases.
C19_ExportBreadthFirst ==
    /\ \A i, j \in DOMAIN emitted : emitted[i].edge = emitted[j].edge => i = j
    /\ \A i \in DOMAIN emitted : emitted[i].edge \in EmittableEdges
    /\ pc = "xdone" => {emitted[i].edge : i \in DOMAIN emitted} = EmittableEdges
    /\ \A i \in DOMAIN emitted :
          /\ emitted[i].edge.parent # TopNode =>
                \E j \in 1..(i - 1) : emitted[j].edge.child = emitted[i].edge.parent
          /\ \A j \in 1..(i - 1) :
                DepthOf(emitted[j].edge.parent) <= DepthOf(emitted[i].edge.parent)

\* The export has ended on a graph with a terminal-tagged edge below a node
\* that is not the top node: two triples are out, the second from that node.
C19_Witness ==
    /\ pc = "xdone"
    /\ Len(edges) = 3
    /\ Len(emitted) = 2
    /\ emitted[2].edge.parent # TopNode
    /\ \E e \in Range(edges) :
          e.tag = TagTerminal /\ e.parent = emitted[2].edge.parent

\* The variables and constants within k triples of the root variable, and the
\* distance of one of them from the root variable.
RECURSIVE TripleWithin(_)
TripleWithin(k) ==
    IF k = 0 THEN {Root}
    ELSE TripleWithin(k - 1)
         \cup {t[3] : t \in {u \in Range(triples) : u[1] \in TripleWithin(k - 1)}}
TripleDist(x) ==
    CHOOSE k \in 0..Len(triples) :
        x \in TripleWithin(k) /\ \A j \in 0..(k - 1) : x \notin TripleWithin(j)

\* The nodes within k primary edges of the top node, and the depth of a node.
RECURSIVE PrimaryWithin(_)
PrimaryWithin(k) ==
    IF k = 0 THEN {TopNode}
    ELSE PrimaryWithin(k - 1)
         \cup {e.child : e \in {f \in PrimaryEdges : f.parent \in PrimaryWithin(k - 1)}}
PrimaryDepth(n) ==
    CHOOSE k \in 0..Len(edges) :
        n \in PrimaryWithin(k) /\ \A j \in 0..(k - 1) : n \notin PrimaryWithin(j)

\* The first processed triple with x as its dependent.
FirstEntry(x) ==
    CHOOSE i \in DOMAIN nodes : nodes[i][1][3] = x /\ \A j \in 1..(i - 1) : nodes[j][1][3] # x

\* The walk takes the triples that the root variable reaches, each once, in
\* breadth-first order; when it returns it has taken them all.
BreadthFirstWalk ==
    /\ \A i, j \in DOMAIN nodes : nodes[i][1] = nodes[j][1] => i = j
    /\ \A i \in DOMAIN nodes : nodes[i][1][1] \in TripleReach({Root})
    /\ pc = "built" =>
          {nodes[i][1] : i \in DOMAIN nodes}
          = {t \in Range(triples) : t[1] \in TripleReach({Root})}
    /\ \A i \in DOMAIN nodes : \A j \in 1..(i - 1) :
          TripleDist(nodes[j][1][1]) <= TripleDist(nodes[i][1][1])

\* The node of variable x hangs under the head of the first triple that
\* reached x, at the depth that is the distance of x from the root variable.
PlacedByFirstTriple(x) ==
    /\ {e.parent : e \in PrimaryParents(variables[x])}
       = {variables[nodes[FirstEntry(x)][1][1]]}
    /\ PrimaryDepth(variables[x]) = TripleDist(x)

Reached == {nodes[i][1][3] : i \in DOMAIN nodes} \cap DOMAIN variables

\* C20: the import takes each triple that the root variable reaches exactly
\* once, in breadth-first order; the primary parent of the node of each
\* variable is the head of the first triple that reaches the variable and the
\* depth of the node is the distance of the variable from the root variable.
C20_BreadthFirstImport ==
    (TopCount = 1 /\ pc # "start") =>
        /\ BreadthFirstWalk
        /\ \A x \in Reached : PlacedByFirstTriple(x)

\* C20 as the code has it: the same for every variable but the root variable.
\* The root variable is mapped to the top node before the walk: the top node
\* has depth 0 and no primary parent, also when a triple reaches the root.
C20_BreadthFirstImportButRoot ==
    (TopCount = 1 /\ pc # "start") =>
        /\ BreadthFirstWalk
        /\ \A x \in Reached \ {Root} : PlacedByFirstTriple(x)
        /\ PrimaryParents(TopNode) = {}
        /\ variables[Root] = TopNode

\* The walk has returned; a variable was reached by two triples with heads at
\* different depths, and its node hangs under the nearer head.
C20_Witness ==
    /\ pc = "built"
    /\ TopCount = 1
    /\ \E x \in Reached \ {Root} : \E j \in DOMAIN nodes :
          /\ nodes[j][1][3] = x
          /\ j # FirstEntry(x)
          /\ TripleDist(nodes[j][1][1]) > TripleDist(nodes[FirstEntry(x)][1][1])
====
